---- MODULE Spec2Model ----
(***************************************************************************)
(* Entity recognition and overlap resolution of package ner                *)
(* (src/ner/patterns.go).                                                  *)
(*                                                                         *)
(* A text is a sequence of bytes.  An ASCII byte is written as the         *)
(* one-character string of its character; a byte >= 0x80, and the double   *)
(* quote and the backquote, as its two hex digits (C3, 22, 60).  Offsets   *)
(* are byte offsets counted from 0, as in Go: the byte at offset p is      *)
(* s[p+1], and s[a:b] is SubSeq(s, a+1, b).                                *)
(***************************************************************************)
EXTENDS Integers, Sequences, FiniteSets, TLC

(***************************************************************************)
(* Bounds of the model.                                                    *)
(***************************************************************************)
\* an input is the concatenation of at most MaxFrags fragments
MaxFrags == 2

(***************************************************************************)
(* Bytes and the character classes of the patterns.                        *)
(***************************************************************************)
\* the byte sequence of an ASCII string
B(str) == [i \in 1..Len(str) |-> SubSeq(str, i, i)]

Digit == {"0", "1", "2", "3", "4", "5", "6", "7", "8", "9"}

Upper == {"A", "B", "C", "D", "E", "F", "G", "H", "I", "J", "K", "L", "M",
          "N", "O", "P", "Q", "R", "S", "T", "U", "V", "W", "X", "Y", "Z"}

Lower == {"a", "b", "c", "d", "e", "f", "g", "h", "i", "j", "k", "l", "m",
          "n", "o", "p", "q", "r", "s", "t", "u", "v", "w", "x", "y", "z"}

Letter == Upper \cup Lower

\* \s of the regexp syntax: [\t\n\f\r ]
Space == {" ", "\t", "\n", "\f", "\r"}

\* Word with the bytes of the non-ASCII letters counted as word characters
Word_unicode ==
    Digit \cup Letter \cup {"_"} \cup {"C3", "C5", "C9", "96", "99", "9F", "B6", "BC"}

\* \w of the regexp syntax: [0-9A-Za-z_]; \b is defined over it (ASCII only)
Word == Digit \cup Letter \cup {"_"}

\* [a-zA-Z0-9._%+\-]
EmailLocal == Letter \cup Digit \cup {".", "_", "%", "+", "-"}

\* [a-zA-Z0-9.\-]
EmailDomain == Letter \cup Digit \cup {".", "-"}

\* the bytes excluded by the negated class of reURL
URLExcluded == Space \cup {"<", ">", "22", "{", "}", "|", "\\", "^", "60"}

\* the cutset of strings.TrimRight in matchURL
URLTrim == {".", ",", ";", ":", "!", "?", ")", "]", "}", ">"}

\* [A-HJ-NP-Z0-9]
FINClass == (Upper \ {"I", "O"}) \cup Digit

\* [A-HJ-NP-Z0-9] under the flag (?i) of reFINLabeled: the flag holds for the
\* whole pattern, so the class is closed under case folding (restricted to
\* the ASCII letters; the folds U+212A and U+017F are not in the alphabet)
FINClassFold == FINClass \cup (Lower \ {"i", "o"})

(***************************************************************************)
(* Helpers of the pattern matching.                                        *)
(***************************************************************************)
NoMatch == -1

\* the byte at offset p (s[p] in Go), "" outside the text
At(s, p) == IF p >= 0 /\ p < Len(s) THEN s[p + 1] ELSE ""

\* s[a:b]
Slice(s, a, b) == SubSeq(s, a + 1, b)

\* \b at offset p
WordBoundary(s, p) == (At(s, p - 1) \in Word) # (At(s, p) \in Word)

\* the n bytes from offset p are all in class C
AllIn(s, p, n, C) == \A k \in 0..(n - 1) : At(s, p + k) \in C

\* the literal lit (a byte sequence) stands at offset p
Lit(s, p, lit) == \A k \in 1..Len(lit) : At(s, p + k - 1) = lit[k]

\* the offset after a greedy \s? at offset p
OptSpace(s, p) == IF At(s, p) \in Space THEN p + 1 ELSE p

\* the offset after the longest run of bytes of class C from offset p
RECURSIVE RunEnd(_, _, _)
RunEnd(s, p, C) == IF At(s, p) \in C THEN RunEnd(s, p + 1, C) ELSE p

\* the offset after the longest run of bytes outside class C from offset p
RECURSIVE RunEndNot(_, _, _)
RunEndNot(s, p, C) ==
    IF p < Len(s) /\ At(s, p) \notin C THEN RunEndNot(s, p + 1, C) ELSE p

\* the least element of a non-empty set of integers
Min(S) == CHOOSE x \in S : \A y \in S : x <= y

\* the greatest element of a non-empty set of integers
Max(S) == CHOOSE x \in S : \A y \in S : x >= y

(***************************************************************************)
(* The compiled patterns.  re...(s, p) is the end offset of the match of   *)
(* the pattern that starts at offset p of s (the one the leftmost-first    *)
(* semantics of package regexp prefers), or NoMatch.                       *)
(***************************************************************************)
\* \s?(\d{2})\s?(\d{3})\s?(\d{2})\s?(\d{2}) from offset p: \s and \d are
\* disjoint, so each greedy \s? takes the space byte when there is one
PhoneGroups(s, p) ==
    LET a == OptSpace(s, p)
        b == OptSpace(s, a + 2)
        c == OptSpace(s, b + 3)
        d == OptSpace(s, c + 2)
    IN  IF /\ AllIn(s, a, 2, Digit) /\ AllIn(s, b, 3, Digit)
           /\ AllIn(s, c, 2, Digit) /\ AllIn(s, d, 2, Digit)
        THEN d + 2 ELSE NoMatch

\* \+994\s?(\d{2})\s?(\d{3})\s?(\d{2})\s?(\d{2})
rePhoneIntl(s, p) ==
    IF Lit(s, p, B("+994")) THEN PhoneGroups(s, p + 4) ELSE NoMatch

\* \b0(\d{2})\s?(\d{3})\s?(\d{2})\s?(\d{2})\b : no \s? after the leading 0
rePhoneLocal(s, p) ==
    LET b == OptSpace(s, p + 3)
        c == OptSpace(s, b + 3)
        d == OptSpace(s, c + 2)
    IN  IF /\ WordBoundary(s, p) /\ At(s, p) = "0"
           /\ AllIn(s, p + 1, 2, Digit) /\ AllIn(s, b, 3, Digit)
           /\ AllIn(s, c, 2, Digit) /\ AllIn(s, d, 2, Digit)
           /\ WordBoundary(s, d + 2)
        THEN d + 2 ELSE NoMatch

\* [a-zA-Z0-9._%+\-]+@[a-zA-Z0-9.\-]+\.[a-zA-Z]{2,} : the local part is the
\* run up to the @; the greedy domain part backs off to the last dot of its
\* run that two letters follow; the top-level domain is the run of letters
reEmail(s, p) ==
    LET at   == RunEnd(s, p, EmailLocal)
        dEnd == RunEnd(s, at + 1, EmailDomain)
        dots == {d \in (at + 2)..(dEnd - 1) :
                    At(s, d) = "." /\ AllIn(s, d + 1, 2, Letter)}
    IN  IF at > p /\ At(s, at) = "@" /\ dots # {}
        THEN RunEnd(s, Max(dots) + 1, Letter) ELSE NoMatch

\* https?://[^...]+ : one byte or more outside URLExcluded after the scheme
reURL(s, p) ==
    LET q == IF At(s, p + 4) = "s" THEN p + 5 ELSE p + 4
        e == RunEndNot(s, q + 3, URLExcluded)
    IN  IF Lit(s, p, B("http")) /\ Lit(s, q, B("://")) /\ e > q + 3
        THEN e ELSE NoMatch

\* reIBAN with \d{20} for the account part
reIBAN_digitsOnly(s, p) ==
    IF /\ WordBoundary(s, p) /\ Lit(s, p, B("AZ"))
       /\ AllIn(s, p + 2, 2, Digit) /\ AllIn(s, p + 4, 4, Upper)
       /\ AllIn(s, p + 8, 20, Digit)
       /\ WordBoundary(s, p + 28)
    THEN p + 28 ELSE NoMatch

\* \bAZ\d{2}[A-Z]{4}[A-Z0-9]{20}\b
reIBAN(s, p) ==
    IF /\ WordBoundary(s, p) /\ Lit(s, p, B("AZ"))
       /\ AllIn(s, p + 2, 2, Digit) /\ AllIn(s, p + 4, 4, Upper)
       /\ AllIn(s, p + 8, 20, Upper \cup Digit)
       /\ WordBoundary(s, p + 28)
    THEN p + 28 ELSE NoMatch

\* \b\d{2}-[A-Z]{2}-\d{3}\b
reLicensePlate(s, p) ==
    IF /\ WordBoundary(s, p) /\ AllIn(s, p, 2, Digit) /\ At(s, p + 2) = "-"
       /\ AllIn(s, p + 3, 2, Upper) /\ At(s, p + 5) = "-"
       /\ AllIn(s, p + 6, 3, Digit) /\ WordBoundary(s, p + 9)
    THEN p + 9 ELSE NoMatch

\* reFINLabeledGroup for a pattern without the \s? after [:\s]
reFINLabeledGroup_noSpace(s, p) == p + 4

\* the start of the capture group of reFINLabeled for a match at offset p:
\* after the keyword, one byte of [:\s] and a greedy \s?
reFINLabeledGroup(s, p) == OptSpace(s, p + 4)

\* (?i)\bFIN[:\s]\s?([A-HJ-NP-Z0-9]{7})\b
reFINLabeled(s, p) ==
    LET g == reFINLabeledGroup(s, p)
    IN  IF /\ WordBoundary(s, p)
           /\ At(s, p) \in {"F", "f"} /\ At(s, p + 1) \in {"I", "i"}
           /\ At(s, p + 2) \in {"N", "n"}
           /\ At(s, p + 3) \in {":"} \cup Space
           /\ AllIn(s, g, 7, FINClassFold)
           /\ WordBoundary(s, g + 7)
        THEN g + 7 ELSE NoMatch

\* \b[A-HJ-NP-Z0-9]{7}\b
reFINBare(s, p) ==
    IF WordBoundary(s, p) /\ AllIn(s, p, 7, FINClass) /\ WordBoundary(s, p + 7)
    THEN p + 7 ELSE NoMatch

\* the offset after V[\u00D6O] under (?i) at offset p, or NoMatch: O and o are
\* one byte, U+00D6 and U+00F6 the two bytes C3 96 and C3 B6
reVOENKeyword(s, p) ==
    IF At(s, p) \notin {"V", "v"} THEN NoMatch
    ELSE IF At(s, p + 1) \in {"O", "o"} THEN p + 2
    ELSE IF At(s, p + 1) = "C3" /\ At(s, p + 2) \in {"96", "B6"} THEN p + 3
    ELSE NoMatch

\* the start of the capture group of reVOENLabeled for a match at offset p
reVOENLabeledGroup(s, p) == OptSpace(s, reVOENKeyword(s, p) + 3)

\* (?i)\bV[\u00D6O]EN[:\s]\s?(\d{10})\b
reVOENLabeled(s, p) ==
    LET k == reVOENKeyword(s, p)
        g == reVOENLabeledGroup(s, p)
    IN  IF /\ WordBoundary(s, p) /\ k # NoMatch
           /\ At(s, k) \in {"E", "e"} /\ At(s, k + 1) \in {"N", "n"}
           /\ At(s, k + 2) \in {":"} \cup Space
           /\ AllIn(s, g, 10, Digit)
           /\ WordBoundary(s, g + 10)
        THEN g + 10 ELSE NoMatch

\* \b\d{10}\b
reVOENBare(s, p) ==
    IF WordBoundary(s, p) /\ AllIn(s, p, 10, Digit) /\ WordBoundary(s, p + 10)
    THEN p + 10 ELSE NoMatch

(***************************************************************************)
(* FindAllStringIndex: the successive leftmost matches, each search        *)
(* starting where the previous match ended.  ends[p] is the end of the     *)
(* match at offset p, or NoMatch; every match is non-empty.                *)
(***************************************************************************)
RECURSIVE FindAllFrom(_, _)
FindAllFrom(ends, pos) ==
    LET starts == {p \in DOMAIN ends : p >= pos /\ ends[p] # NoMatch}
    IN  IF starts = {} THEN <<>>
        ELSE LET m0 == Min(starts)
             IN  <<<<m0, ends[m0]>>>> \o FindAllFrom(ends, ends[m0])

FindAllStringIndex(ends) == FindAllFrom(ends, 0)

\* the offsets of s at which a match can start
Offsets(s) == 0..(Len(s) - 1)

(***************************************************************************)
(* The matchers.                                                           *)
(***************************************************************************)
\* an Entity whose Text is s[start:end]
Entity(s, start, end, type, labeled) ==
    [Text |-> Slice(s, start, end), Start |-> start, End |-> end,
     Type |-> type, Labeled |-> labeled]

\* TrimRight that removes one trailing byte of the cutset at most
TrimRight_once(text, cutset) ==
    IF Len(text) > 0 /\ text[Len(text)] \in cutset
    THEN SubSeq(text, 1, Len(text) - 1)
    ELSE text

\* strings.TrimRight(text, cutset)
RECURSIVE TrimRight(_, _)
TrimRight(text, cutset) ==
    IF Len(text) > 0 /\ text[Len(text)] \in cutset
    THEN TrimRight(SubSeq(text, 1, Len(text) - 1), cutset)
    ELSE text

matchPhone(s) ==
    LET intl  == FindAllStringIndex([p \in Offsets(s) |-> rePhoneIntl(s, p)])
        local == FindAllStringIndex([p \in Offsets(s) |-> rePhoneLocal(s, p)])
    IN  [i \in 1..Len(intl) |->
            Entity(s, intl[i][1], intl[i][2], "Phone", FALSE)]
        \o [i \in 1..Len(local) |->
            Entity(s, local[i][1], local[i][2], "Phone", FALSE)]

matchEmail(s) ==
    LET ms == FindAllStringIndex([p \in Offsets(s) |-> reEmail(s, p)])
    IN  [i \in 1..Len(ms) |-> Entity(s, ms[i][1], ms[i][2], "Email", FALSE)]

\* matchURLEnd with the end of the untrimmed match
matchURLEnd_untrimmed(m, text) == m[2]

\* the end offset matchURL gives the entity of the match m with trimmed text
matchURLEnd(m, text) == m[1] + Len(text)

matchURL(s) ==
    LET ms == FindAllStringIndex([p \in Offsets(s) |-> reURL(s, p)])
    IN  [i \in 1..Len(ms) |->
            LET text == TrimRight(Slice(s, ms[i][1], ms[i][2]), URLTrim)
            IN  [Text |-> text, Start |-> ms[i][1],
                 End |-> matchURLEnd(ms[i], text),
                 Type |-> "URL", Labeled |-> FALSE]]

matchIBAN(s) ==
    LET ms == FindAllStringIndex([p \in Offsets(s) |-> reIBAN(s, p)])
    IN  [i \in 1..Len(ms) |-> Entity(s, ms[i][1], ms[i][2], "IBAN", FALSE)]

matchLicensePlate(s) ==
    LET ms == FindAllStringIndex([p \in Offsets(s) |-> reLicensePlate(s, p)])
    IN  [i \in 1..Len(ms) |->
            Entity(s, ms[i][1], ms[i][2], "LicensePlate", FALSE)]

\* matchFIN with the whole labeled match, keyword included, as the entity
matchFIN_wholeMatch(s) ==
    LET lab  == FindAllStringIndex([p \in Offsets(s) |-> reFINLabeled(s, p)])
        bare == FindAllStringIndex([p \in Offsets(s) |-> reFINBare(s, p)])
    IN  [i \in 1..Len(lab) |->
            Entity(s, lab[i][1], lab[i][2], "FIN", TRUE)]
        \o [i \in 1..Len(bare) |->
            Entity(s, bare[i][1], bare[i][2], "FIN", FALSE)]

\* matchFIN with the bare matches marked labeled too
matchFIN_bareLabeled(s) ==
    LET lab  == FindAllStringIndex([p \in Offsets(s) |-> reFINLabeled(s, p)])
        bare == FindAllStringIndex([p \in Offsets(s) |-> reFINBare(s, p)])
    IN  [i \in 1..Len(lab) |->
            Entity(s, reFINLabeledGroup(s, lab[i][1]), lab[i][2], "FIN", TRUE)]
        \o [i \in 1..Len(bare) |->
            Entity(s, bare[i][1], bare[i][2], "FIN", TRUE)]

\* labeled matches first (the entity is the capture group sub[2]:sub[3]),
\* then the bare matches
matchFIN(s) ==
    LET lab  == FindAllStringIndex([p \in Offsets(s) |-> reFINLabeled(s, p)])
        bare == FindAllStringIndex([p \in Offsets(s) |-> reFINBare(s, p)])
    IN  [i \in 1..Len(lab) |->
            Entity(s, reFINLabeledGroup(s, lab[i][1]), lab[i][2], "FIN", TRUE)]
        \o [i \in 1..Len(bare) |->
            Entity(s, bare[i][1], bare[i][2], "FIN", FALSE)]

matchVOEN(s) ==
    LET lab  == FindAllStringIndex([p \in Offsets(s) |-> reVOENLabeled(s, p)])
        bare == FindAllStringIndex([p \in Offsets(s) |-> reVOENBare(s, p)])
    IN  [i \in 1..Len(lab) |->
            Entity(s, reVOENLabeledGroup(s, lab[i][1]), lab[i][2], "VOEN", TRUE)]
        \o [i \in 1..Len(bare) |->
            Entity(s, bare[i][1], bare[i][2], "VOEN", FALSE)]

(***************************************************************************)
(* sort.Slice.  The sort is not stable: it returns some permutation of     *)
(* the slice in which no element is less than an earlier one, and which    *)
(* one among elements that compare equal is not specified.  lt[i][j] is    *)
(* less(i, j) on the slice before the sort.                                *)
(***************************************************************************)
RECURSIVE SortOrders(_, _)
SortOrders(lt, rest) ==
    IF rest = {} THEN {<<>>}
    ELSE UNION { {<<i>> \o t : t \in SortOrders(lt, rest \ {i})} :
                 i \in {i \in rest : \A j \in rest : ~lt[j][i]} }

\* the slices sort.Slice can leave
SortSlice(es, lt) ==
    {[k \in 1..Len(es) |-> es[o[k]]] : o \in SortOrders(lt, 1..Len(es))}

\* resolveLess with the shorter span first
resolveLess_shorterFirst(a, b) ==
    IF a.Start # b.Start THEN a.Start < b.Start
    ELSE IF (a.End - a.Start) # (b.End - b.Start)
         THEN (a.End - a.Start) < (b.End - b.Start)
    ELSE IF a.Labeled # b.Labeled THEN a.Labeled
    ELSE FALSE

\* resolveLess without the comparison of Labeled
resolveLess_noLabel(a, b) ==
    IF a.Start # b.Start THEN a.Start < b.Start
    ELSE IF (a.End - a.Start) # (b.End - b.Start)
         THEN (a.End - a.Start) > (b.End - b.Start)
    ELSE FALSE

\* the comparator of the sort in resolveOverlaps
resolveLess(a, b) ==
    IF a.Start # b.Start THEN a.Start < b.Start
    ELSE IF (a.End - a.Start) # (b.End - b.Start)
         THEN (a.End - a.Start) > (b.End - b.Start)
    ELSE IF a.Labeled # b.Labeled THEN a.Labeled
    ELSE FALSE

\* recognizeLess for a sort by Start descending
recognizeLess_desc(a, b) == a.Start > b.Start

\* the comparator of the sort in recognize
recognizeLess(a, b) == a.Start < b.Start

(***************************************************************************)
(* The inputs of the model: every concatenation of at most MaxFrags of     *)
(* the fragments below, and the two documented shapes of input.            *)
(***************************************************************************)
Fragments ==
    { B("FIN: "), B("fin "), B("5ARPXK2"), B("abcdefg"), B("1234567"),
      B("VOEN: "), B("V") \o <<"C3", "96">> \o B("EN:"),
      B("0551234567"), B("+994501234567"),
      B("AZ21NABZ00000000137010001944"),
      B("a@b."), B("info@gov.az"), B("1234567@gov.az"),
      B("http://x.az"), B("http://"), B("10-AA-123"),
      B("."), B(" "), B(", tel "), B("x"), <<"C9", "99">>, <<"C3">> }

RECURSIVE Concats(_)
Concats(n) ==
    IF n = 0 THEN {<<>>}
    ELSE Concats(n - 1) \cup {c \o f : c \in Concats(n - 1), f \in Fragments}

\* 'FIN: <7-char code>, tel <+994 number>'
FinTelInputs ==
    { B("FIN: ") \o c \o B(", tel ") \o t :
        c \in {B("5ARPXK2"), B("1234567"), B("AZ21NAB")},
        t \in {B("+994501234567"), B("+994 50 123 45 67"), B("+99450 1234567")} }

\* exactly one Azerbaijani IBAN
IBANInputs ==
    { B("AZ") \o d \o b \o a \o c :
        d \in {B("21"), B("00")}, b \in {B("NABZ"), B("FINA")},
        a \in {B("0000000013"), B("AZ21NABZ00"), B("0551234567")},
        c \in {B("7010001944"), B("5ARPXK2ABC"), B("0551234567")} }

\* whole texts in which several kinds of entity meet
ExampleInputs ==
    { B("VOEN: 0551234567 FIN: 1234567@gov.az"),
      B("FIN: 5ARPXK2, 1234567 see http://x.az/a?b=(1)."),
      B("+994501234567 v") \o <<"C9", "99">> \o B(" 0551234567"),
      B("a@b.AZ21NABZ00000000137010001944 10-AA-123 0551234567"),
      B("1234567@gov.az a@b.http://x.az 0551234567+994501234567") }

\* a keyword directly before its code, and codes between neighbours that
\* are non-ASCII letters (U+0259 is C9 99, U+015F C5 9F, U+00FC C3 BC),
\* ASCII letters or an underscore
BoundaryInputs ==
    { B("VOEN0551234567"), B("FIN5ARPXK2"),
      B("v") \o <<"C3", "B6">> \o B("en0551234567 fin5ARPXK2"),
      <<"C9", "99">> \o B("0551234567") \o <<"C9", "99">>,
      <<"C5", "9F">> \o B("5ARPXK2") \o <<"C3", "BC">>,
      <<"C9", "99">> \o B("1234567890") \o <<"C5", "9F">> \o B("5ARPXK2")
          \o <<"C3", "BC">> \o B("x0551234567 5ARPXK2_"),
      B("a0551234567") \o <<"C9", "99">> \o B(" ") \o <<"C9", "99">>
          \o B("5ARPXK2Z") }

Inputs ==
    Concats(MaxFrags) \cup FinTelInputs \cup IBANInputs \cup ExampleInputs
        \cup BoundaryInputs

(***************************************************************************)
(* Package translit.  A text is a sequence of runes: an ASCII rune is its  *)
(* character, every other rune the name U+XXXX of its code point.          *)
(* LatinToCyrillic, CyrillicToLatin and frontVowels are written from the   *)
(* tables of translit_test.go and the comment of resolveG; containsGje    *)
(* and resolveG are the functions of the package.                          *)
(***************************************************************************)
MaxLatinLen == 3

\* the pairs Latin letter, Cyrillic letter of TestLatinToCyrillic
latinToCyrillicTable ==
    <<
      <<"a", "U+0430">>, <<"b", "U+0431">>, <<"c", "U+04B9">>,
      <<"U+00E7", "U+0447">>, <<"d", "U+0434">>, <<"e", "U+0435">>,
      <<"U+0259", "U+04D9">>, <<"f", "U+0444">>, <<"g", "U+049D">>,
      <<"U+011F", "U+0493">>, <<"h", "U+04BB">>, <<"U+0131", "U+044B">>,
      <<"i", "U+0438">>, <<"j", "U+0436">>, <<"k", "U+043A">>,
      <<"l", "U+043B">>, <<"m", "U+043C">>, <<"n", "U+043D">>,
      <<"o", "U+043E">>, <<"U+00F6", "U+04E9">>, <<"p", "U+043F">>,
      <<"q", "U+0433">>, <<"r", "U+0440">>, <<"s", "U+0441">>,
      <<"U+015F", "U+0448">>, <<"t", "U+0442">>, <<"u", "U+0443">>,
      <<"U+00FC", "U+04AF">>, <<"v", "U+0432">>, <<"x", "U+0445">>,
      <<"y", "U+0458">>, <<"z", "U+0437">>,
      <<"A", "U+0410">>, <<"B", "U+0411">>, <<"C", "U+04B8">>,
      <<"U+00C7", "U+0427">>, <<"D", "U+0414">>, <<"E", "U+0415">>,
      <<"U+018F", "U+04D8">>, <<"F", "U+0424">>, <<"G", "U+049C">>,
      <<"U+011E", "U+0492">>, <<"H", "U+04BA">>, <<"I", "U+042B">>,
      <<"U+0130", "U+0418">>, <<"J", "U+0416">>, <<"K", "U+041A">>,
      <<"L", "U+041B">>, <<"M", "U+041C">>, <<"N", "U+041D">>,
      <<"O", "U+041E">>, <<"U+00D6", "U+04E8">>, <<"P", "U+041F">>,
      <<"Q", "U+0413">>, <<"R", "U+0420">>, <<"S", "U+0421">>,
      <<"U+015E", "U+0428">>, <<"T", "U+0422">>, <<"U", "U+0423">>,
      <<"U+00DC", "U+04AE">>, <<"V", "U+0412">>, <<"X", "U+0425">>,
      <<"Y", "U+0408">>, <<"Z", "U+0417">>
    >>

\* the Cyrillic letters U+0413 and U+0433 (Ge), U+049C and U+049D (Gje)
GeUpper == "U+0413"

GeLower == "U+0433"

GjeUpper == "U+049C"

GjeLower == "U+049D"

\* the soft and hard signs, which CyrillicToLatin removes
Signs == {"U+042C", "U+044C", "U+042A", "U+044A"}

\* unicode.IsLetter on the runes of the model: the ASCII letters and every
\* rune named by its code point
IsLetter(r) == r \in Letter \/ Len(r) = 6

\* the front vowels of the comment of resolveG: U+04D9, U+0435, U+0438,
\* U+04E9, U+04AF
frontVowels == {"U+04D9", "U+0435", "U+0438", "U+04E9", "U+04AF"}

\* strings.ContainsAny(s, Gje)
containsGje(s) == \E i \in DOMAIN s : s[i] \in {GjeUpper, GjeLower}

\* resolveG that looks at the rune right after Ge only, skipping nothing
resolveG_noSkip(upper, rest, hasGje) ==
    IF hasGje THEN (IF upper THEN "Q" ELSE "q")
    ELSE IF Len(rest) = 0 THEN (IF upper THEN "Q" ELSE "q")
    ELSE IF Head(rest) \in frontVowels THEN (IF upper THEN "G" ELSE "g")
    ELSE (IF upper THEN "Q" ELSE "q")

\* the Latin rune for Ge: Q when the text has a Gje; otherwise G when the
\* first letter of rest is a front vowel, and Q when it is another letter
\* or rest has no letter
RECURSIVE resolveG(_, _, _)
resolveG(upper, rest, hasGje) ==
    IF hasGje THEN (IF upper THEN "Q" ELSE "q")
    ELSE IF Len(rest) = 0 THEN (IF upper THEN "Q" ELSE "q")
    ELSE IF ~IsLetter(Head(rest)) THEN resolveG(upper, Tail(rest), hasGje)
    ELSE IF Head(rest) \in frontVowels THEN (IF upper THEN "G" ELSE "g")
    ELSE (IF upper THEN "Q" ELSE "q")

\* every rune of the table is replaced by its Cyrillic letter, every other
\* rune is kept
LatinToCyrillic(s) ==
    [i \in 1..Len(s) |->
        IF \E j \in DOMAIN latinToCyrillicTable :
                latinToCyrillicTable[j][1] = s[i]
        THEN latinToCyrillicTable[
                CHOOSE j \in DOMAIN latinToCyrillicTable :
                    latinToCyrillicTable[j][1] = s[i]][2]
        ELSE s[i]]

\* the Latin runes for the rune at index i of the Cyrillic text s
cyrillicRune(s, i, hasGje) ==
    IF s[i] \in {GeUpper, GeLower}
    THEN <<resolveG(s[i] = GeUpper, SubSeq(s, i + 1, Len(s)), hasGje)>>
    ELSE IF s[i] \in Signs THEN <<>>
    ELSE IF s[i] = "U+0439" THEN <<"y">>
    ELSE IF s[i] = "U+0419" THEN <<"Y">>
    ELSE IF \E j \in DOMAIN latinToCyrillicTable :
                latinToCyrillicTable[j][2] = s[i]
    THEN <<latinToCyrillicTable[
                CHOOSE j \in DOMAIN latinToCyrillicTable :
                    latinToCyrillicTable[j][2] = s[i]][1]>>
    ELSE <<s[i]>>

RECURSIVE cyrillicFrom(_, _, _)
cyrillicFrom(s, i, hasGje) ==
    IF i > Len(s) THEN <<>>
    ELSE cyrillicRune(s, i, hasGje) \o cyrillicFrom(s, i + 1, hasGje)

CyrillicToLatin(s) == cyrillicFrom(s, 1, containsGje(s))

\* the runes of the Latin texts of the model: q, g, Q, a back vowel, the
\* front vowels U+0259, e, i, U+00F6 and U+00FC, a consonant, the space and
\* the full stop
LatinSample ==
    {"q", "g", "Q", "a", "U+0259", "e", "i", "U+00F6", "U+00FC", "l", " ", "."}

RECURSIVE LatinTexts(_)
LatinTexts(n) ==
    IF n = 0 THEN {<<>>}
    ELSE LatinTexts(n - 1)
            \cup {Append(t, r) : t \in LatinTexts(n - 1), r \in LatinSample}

(***************************************************************************)
(* The state: one call of recognize on input, followed by a second call    *)
(* on the same input.                                                      *)
(***************************************************************************)
VARIABLES
    input,      \* the text s
    pc,         \* the position of the call
    all,        \* recognize: the slice all
    entities,   \* resolveOverlaps: the parameter entities
    result,     \* resolveOverlaps: the slice result
    maxEnd,     \* resolveOverlaps: maxEnd
    k,          \* resolveOverlaps: the index of the range loop (from 1)
    cands,      \* the candidates in aggregation order, as passed to resolveOverlaps
    isNil,      \* recognize: all is the nil slice
    run,        \* 1 in the first call, 2 in the second
    first,      \* the list the first call returned
    tpc,        \* translit: the position of the round trip
    latin,      \* translit: the Latin text s
    cyr,        \* translit: LatinToCyrillic(s)
    back,       \* translit: CyrillicToLatin(cyr)
    cpc,        \* concurrent calls: the position of each call
    cinput,     \* concurrent calls: the text of each call
    frame,      \* concurrent calls: the local variables of the calls
    mpc,        \* numtext: the position of the conversion
    num,        \* numtext: the argument n of convert
    words,      \* numtext: convert(n)
    negwords    \* numtext: convert(-n)

\* the state of one call of recognize and of its repetition
nvars == <<input, pc, all, entities, result, maxEnd, k, cands, isNil, run, first>>

\* the state of the transliteration round trip
tvars == <<tpc, latin, cyr, back>>

\* the state of the concurrent calls of recognize
cvars == <<cpc, cinput, frame>>

\* the state of the number conversion
mvars == <<mpc, num, words, negwords>>

vars == <<nvars, tvars, cvars, mvars>>

\* no round trip of the transliteration is under way
TranslitIdle == tpc = "idle" /\ latin = <<>> /\ cyr = <<>> /\ back = <<>>

\* no concurrent call is under way
ConcurrentIdle == cpc = <<>> /\ cinput = <<>> /\ frame = <<>>

\* no number conversion is under way
ConvertIdle == mpc = "idle" /\ num = <<>> /\ words = <<>> /\ negwords = <<>>

Init ==
    /\ input \in Inputs
    /\ pc = "matchURL"
    /\ all = <<>>
    /\ entities = <<>>
    /\ result = <<>>
    /\ maxEnd = 0
    /\ k = 0
    /\ cands = <<>>
    /\ isNil = TRUE
    /\ run = 1
    /\ first = <<>>
    /\ TranslitIdle
    /\ ConcurrentIdle
    /\ ConvertIdle

\* the slice expression s[a:b] is in range (it panics otherwise)
SliceOK(s, a, b) == 0 <= a /\ a <= b /\ b <= Len(s)

\* all = append(all, m...) for the matcher at position here: the matcher
\* slices the text at the offsets of each match, and the call panics when
\* one of them is out of range; appending no entity to the nil slice
\* leaves it nil
Aggregate(here, m, next) ==
    /\ pc = here
    /\ IF \A i \in DOMAIN m : SliceOK(input, m[i].Start, m[i].End)
       THEN /\ all' = all \o m
            /\ isNil' = (isNil /\ Len(m) = 0)
            /\ pc' = next
       ELSE /\ pc' = "panic"
            /\ UNCHANGED <<all, isNil>>
    /\ UNCHANGED <<input, entities, result, maxEnd, k, cands, run, first, tvars, cvars, mvars>>

MatchURL == Aggregate("matchURL", matchURL(input), "matchEmail")

MatchEmail == Aggregate("matchEmail", matchEmail(input), "matchIBAN")

MatchIBAN == Aggregate("matchIBAN", matchIBAN(input), "matchLicensePlate")

MatchLicensePlate ==
    Aggregate("matchLicensePlate", matchLicensePlate(input), "matchPhone")

MatchPhone == Aggregate("matchPhone", matchPhone(input), "matchFIN")

MatchFIN == Aggregate("matchFIN", matchFIN(input), "matchVOEN")

MatchVOEN == Aggregate("matchVOEN", matchVOEN(input), "check")

\* ReturnNil for a return of the empty slice []Entity{}
ReturnNil_empty ==
    /\ pc = "check"
    /\ Len(all) = 0
    /\ all' = <<>>
    /\ isNil' = FALSE
    /\ pc' = "done"
    /\ UNCHANGED <<input, entities, result, maxEnd, k, cands, run, first, tvars, cvars, mvars>>

\* if len(all) == 0 { return nil }
ReturnNil ==
    /\ pc = "check"
    /\ Len(all) = 0
    /\ all' = <<>>
    /\ isNil' = TRUE
    /\ pc' = "done"
    /\ UNCHANGED <<input, entities, result, maxEnd, k, cands, run, first, tvars, cvars, mvars>>

\* the call resolveOverlaps(all)
CallResolve ==
    /\ pc = "check"
    /\ Len(all) # 0
    /\ entities' = all
    /\ cands' = all
    /\ pc' = "resolve"
    /\ UNCHANGED <<input, all, result, maxEnd, k, run, first, isNil, tvars, cvars, mvars>>

\* if len(entities) <= 1 { return entities }
ResolveShort ==
    /\ pc = "resolve"
    /\ Len(entities) <= 1
    /\ all' = entities
    /\ pc' = "finalSort"
    /\ UNCHANGED <<input, entities, result, maxEnd, k, cands, run, first, isNil, tvars, cvars, mvars>>

\* sort.Slice(entities, ...); result := make(...); maxEnd := 0
ResolveSort ==
    /\ pc = "resolve"
    /\ Len(entities) > 1
    /\ entities' \in SortSlice(entities,
            [i \in 1..Len(entities) |-> [j \in 1..Len(entities) |->
                resolveLess(entities[i], entities[j])]])
    /\ result' = <<>>
    /\ maxEnd' = 0
    /\ k' = 1
    /\ pc' = "sweep"
    /\ UNCHANGED <<input, all, cands, run, first, isNil, tvars, cvars, mvars>>

\* Commits for a loop without the test of maxEnd
Commits_always(e, m) == TRUE

\* Commits for a candidate that starts strictly after maxEnd only
Commits_strict(e, m) == e.Start > m

\* Commits with the test of the partial-overlap branch
Commits_endPast(e, m) == e.End > m

\* the condition under which the loop commits the entity e
Commits(e, m) == e.Start >= m

\* if e.Start >= maxEnd { result = append(result, e); maxEnd = e.End }
SweepCommit ==
    /\ pc = "sweep"
    /\ k <= Len(entities)
    /\ Commits(entities[k], maxEnd)
    /\ result' = Append(result, entities[k])
    /\ maxEnd' = entities[k].End
    /\ k' = k + 1
    /\ UNCHANGED <<input, pc, all, entities, cands, run, first, isNil, tvars, cvars, mvars>>

\* SweepPartial that stretches the entity committed last over the candidate
SweepPartial_extend ==
    /\ pc = "sweep"
    /\ k <= Len(entities)
    /\ ~Commits(entities[k], maxEnd)
    /\ entities[k].End > maxEnd
    /\ result' = [result EXCEPT ![Len(result)].End = entities[k].End]
    /\ maxEnd' = entities[k].End
    /\ k' = k + 1
    /\ UNCHANGED <<input, pc, all, entities, cands, run, first, isNil, tvars, cvars, mvars>>

\* SweepPartial that lets the candidate take the place of the entity
\* committed last
SweepPartial_replace ==
    /\ pc = "sweep"
    /\ k <= Len(entities)
    /\ ~Commits(entities[k], maxEnd)
    /\ entities[k].End > maxEnd
    /\ result' = [result EXCEPT ![Len(result)] = entities[k]]
    /\ maxEnd' = entities[k].End
    /\ k' = k + 1
    /\ UNCHANGED <<input, pc, all, entities, cands, run, first, isNil, tvars, cvars, mvars>>

\* else if e.End > maxEnd { continue }
SweepPartial ==
    /\ pc = "sweep"
    /\ k <= Len(entities)
    /\ ~Commits(entities[k], maxEnd)
    /\ entities[k].End > maxEnd
    /\ k' = k + 1
    /\ UNCHANGED <<input, pc, all, entities, result, maxEnd, cands, run, first, isNil, tvars, cvars, mvars>>

\* SweepContained that keeps the contained entity
SweepContained_commit ==
    /\ pc = "sweep"
    /\ k <= Len(entities)
    /\ ~Commits(entities[k], maxEnd)
    /\ ~(entities[k].End > maxEnd)
    /\ result' = Append(result, entities[k])
    /\ k' = k + 1
    /\ UNCHANGED <<input, pc, all, entities, maxEnd, cands, run, first, isNil, tvars, cvars, mvars>>

\* SweepContained that scans the entities from the first one again
SweepContained_restart ==
    /\ pc = "sweep"
    /\ k <= Len(entities)
    /\ ~Commits(entities[k], maxEnd)
    /\ ~(entities[k].End > maxEnd)
    /\ k' = 1
    /\ UNCHANGED <<input, pc, all, entities, result, maxEnd, cands, run, first, isNil, tvars, cvars, mvars>>

\* neither branch: the entity lies inside the committed span
SweepContained ==
    /\ pc = "sweep"
    /\ k <= Len(entities)
    /\ ~Commits(entities[k], maxEnd)
    /\ ~(entities[k].End > maxEnd)
    /\ k' = k + 1
    /\ UNCHANGED <<input, pc, all, entities, result, maxEnd, cands, run, first, isNil, tvars, cvars, mvars>>

\* return result; all = resolveOverlaps(all): result was made by make and
\* is not nil
SweepReturn ==
    /\ pc = "sweep"
    /\ k > Len(entities)
    /\ all' = result
    /\ isNil' = FALSE
    /\ pc' = "finalSort"
    /\ UNCHANGED <<input, entities, result, maxEnd, k, cands, run, first, tvars, cvars, mvars>>

\* sort.Slice(all, ...) by Start; return all
FinalSort ==
    /\ pc = "finalSort"
    /\ all' \in SortSlice(all,
            [i \in 1..Len(all) |-> [j \in 1..Len(all) |->
                recognizeLess(all[i], all[j])]])
    /\ pc' = "done"
    /\ UNCHANGED <<input, entities, result, maxEnd, k, cands, run, first, isNil, tvars, cvars, mvars>>

\* the second call of recognize on the same input
Rerun ==
    /\ pc = "done"
    /\ run = 1
    /\ first' = all
    /\ run' = 2
    /\ pc' = "matchURL"
    /\ all' = <<>>
    /\ entities' = <<>>
    /\ result' = <<>>
    /\ maxEnd' = 0
    /\ k' = 0
    /\ cands' = <<>>
    /\ isNil' = TRUE
    /\ UNCHANGED <<input, tvars, cvars, mvars>>

Next ==
    \/ MatchURL \/ MatchEmail \/ MatchIBAN \/ MatchLicensePlate
    \/ MatchPhone \/ MatchFIN \/ MatchVOEN
    \/ ReturnNil \/ CallResolve \/ ResolveShort \/ ResolveSort
    \/ SweepCommit \/ SweepPartial \/ SweepContained \/ SweepReturn
    \/ FinalSort \/ Rerun

Spec == Init /\ [][Next]_vars

\* the call has returned; all is the returned list
Done == pc = "done"

(***************************************************************************)
(* The round trip of TestRoundTripForward on one Latin text:               *)
(* cyr = LatinToCyrillic(s), then back = CyrillicToLatin(cyr).             *)
(***************************************************************************)
\* no call of recognize is under way
RecognizeIdle ==
    /\ input = <<>> /\ pc = "idle" /\ all = <<>> /\ entities = <<>>
    /\ result = <<>> /\ maxEnd = 0 /\ k = 0 /\ cands = <<>>
    /\ isNil = TRUE /\ run = 0 /\ first = <<>>

TranslitInit ==
    /\ latin \in LatinTexts(MaxLatinLen)
    /\ tpc = "latin"
    /\ cyr = <<>>
    /\ back = <<>>
    /\ RecognizeIdle
    /\ ConcurrentIdle
    /\ ConvertIdle

RunLatinToCyrillic ==
    /\ tpc = "latin"
    /\ cyr' = LatinToCyrillic(latin)
    /\ tpc' = "cyrillic"
    /\ UNCHANGED <<latin, back, nvars, cvars, mvars>>

RunCyrillicToLatin ==
    /\ tpc = "cyrillic"
    /\ back' = CyrillicToLatin(cyr)
    /\ tpc' = "back"
    /\ UNCHANGED <<latin, cyr, nvars, cvars, mvars>>

TranslitNext == RunLatinToCyrillic \/ RunCyrillicToLatin

TranslitSpec == TranslitInit /\ [][TranslitNext]_vars

(***************************************************************************)
(* Concurrent calls of recognize.  Each call has its own position, text    *)
(* and local variables (all, and entities, result, maxEnd and the index    *)
(* of the loop in resolveOverlaps); the compiled patterns are the          *)
(* operators above, which no step changes.  The steps of the calls         *)
(* interleave in every order.                                              *)
(***************************************************************************)
MaxCalls == 2

Calls == 1..MaxCalls

\* the texts of the concurrent calls: no candidate, one candidate, a
\* partial overlap, and a tie with a contained candidate
ConcurrentInputs ==
    {<<>>, B("10-AA-123"), B("a@b.http://x.az"), B("0551234567")}

\* Slot for calls that keep their working slices in one place
Slot_shared(c) == 1

\* the frame that holds the local variables of call c
Slot(c) == c

\* the local variables at the start of a call
NewFrame == [all |-> <<>>, entities |-> <<>>, result |-> <<>>, maxEnd |-> 0, k |-> 0]

ConcurrentInit ==
    /\ cinput \in [Calls -> ConcurrentInputs]
    /\ cpc = [c \in Calls |-> "matchURL"]
    /\ frame = [c \in Calls |-> NewFrame]
    /\ RecognizeIdle
    /\ TranslitIdle
    /\ ConvertIdle

\* less(i, j) of the sort in resolveOverlaps for every pair of indexes of es
resolveLessOf(es) ==
    [i \in 1..Len(es) |-> [j \in 1..Len(es) |-> resolveLess(es[i], es[j])]]

\* less(i, j) of the sort in recognize for every pair of indexes of es
recognizeLessOf(es) ==
    [i \in 1..Len(es) |-> [j \in 1..Len(es) |-> recognizeLess(es[i], es[j])]]

\* call c moves to position next with the frame fr
Goto(c, next, fr) ==
    /\ cpc' = [cpc EXCEPT ![c] = next]
    /\ frame' = [frame EXCEPT ![Slot(c)] = fr]
    /\ UNCHANGED <<cinput, nvars, tvars, mvars>>

CallAggregate(c, here, m, next) ==
    /\ cpc[c] = here
    /\ Goto(c, next, [frame[Slot(c)] EXCEPT !.all = @ \o m])

CallMatchURL(c) ==
    CallAggregate(c, "matchURL", matchURL(cinput[c]), "matchEmail")

CallMatchEmail(c) ==
    CallAggregate(c, "matchEmail", matchEmail(cinput[c]), "matchIBAN")

CallMatchIBAN(c) ==
    CallAggregate(c, "matchIBAN", matchIBAN(cinput[c]), "matchLicensePlate")

CallMatchLicensePlate(c) ==
    CallAggregate(c, "matchLicensePlate", matchLicensePlate(cinput[c]),
                  "matchPhone")

CallMatchPhone(c) ==
    CallAggregate(c, "matchPhone", matchPhone(cinput[c]), "matchFIN")

CallMatchFIN(c) ==
    CallAggregate(c, "matchFIN", matchFIN(cinput[c]), "matchVOEN")

CallMatchVOEN(c) ==
    CallAggregate(c, "matchVOEN", matchVOEN(cinput[c]), "check")

\* if len(all) == 0 { return nil }
CallReturnNil(c) ==
    /\ cpc[c] = "check"
    /\ Len(frame[Slot(c)].all) = 0
    /\ Goto(c, "done", [frame[Slot(c)] EXCEPT !.all = <<>>])

\* the call resolveOverlaps(all)
CallCallResolve(c) ==
    /\ cpc[c] = "check"
    /\ Len(frame[Slot(c)].all) # 0
    /\ Goto(c, "resolve", [frame[Slot(c)] EXCEPT !.entities = frame[Slot(c)].all])

\* if len(entities) <= 1 { return entities }
CallResolveShort(c) ==
    /\ cpc[c] = "resolve"
    /\ Len(frame[Slot(c)].entities) <= 1
    /\ Goto(c, "finalSort", [frame[Slot(c)] EXCEPT !.all = frame[Slot(c)].entities])

\* sort.Slice(entities, ...); result := make(...); maxEnd := 0
CallResolveSort(c) ==
    /\ cpc[c] = "resolve"
    /\ Len(frame[Slot(c)].entities) > 1
    /\ \E sorted \in SortSlice(frame[Slot(c)].entities,
                               resolveLessOf(frame[Slot(c)].entities)) :
            Goto(c, "sweep", [frame[Slot(c)] EXCEPT !.entities = sorted,
                                 !.result = <<>>, !.maxEnd = 0, !.k = 1])

\* if e.Start >= maxEnd { result = append(result, e); maxEnd = e.End }
CallSweepCommit(c) ==
    LET f == frame[Slot(c)]
    IN  /\ cpc[c] = "sweep"
        /\ f.k <= Len(f.entities)
        /\ Commits(f.entities[f.k], f.maxEnd)
        /\ Goto(c, "sweep", [f EXCEPT !.result = Append(@, f.entities[f.k]),
                                !.maxEnd = f.entities[f.k].End, !.k = @ + 1])

\* else if e.End > maxEnd { continue }
CallSweepPartial(c) ==
    LET f == frame[Slot(c)]
    IN  /\ cpc[c] = "sweep"
        /\ f.k <= Len(f.entities)
        /\ ~Commits(f.entities[f.k], f.maxEnd)
        /\ f.entities[f.k].End > f.maxEnd
        /\ Goto(c, "sweep", [f EXCEPT !.k = @ + 1])

\* neither branch: the entity lies inside the committed span
CallSweepContained(c) ==
    LET f == frame[Slot(c)]
    IN  /\ cpc[c] = "sweep"
        /\ f.k <= Len(f.entities)
        /\ ~Commits(f.entities[f.k], f.maxEnd)
        /\ ~(f.entities[f.k].End > f.maxEnd)
        /\ Goto(c, "sweep", [f EXCEPT !.k = @ + 1])

\* return result; all = resolveOverlaps(all)
CallSweepReturn(c) ==
    LET f == frame[Slot(c)]
    IN  /\ cpc[c] = "sweep"
        /\ f.k > Len(f.entities)
        /\ Goto(c, "finalSort", [f EXCEPT !.all = f.result])

\* sort.Slice(all, ...) by Start; return all
CallFinalSort(c) ==
    /\ cpc[c] = "finalSort"
    /\ \E sorted \in SortSlice(frame[Slot(c)].all,
                               recognizeLessOf(frame[Slot(c)].all)) :
            Goto(c, "done", [frame[Slot(c)] EXCEPT !.all = sorted])

ConcurrentNext ==
    \E c \in Calls :
        \/ CallMatchURL(c) \/ CallMatchEmail(c) \/ CallMatchIBAN(c)
        \/ CallMatchLicensePlate(c) \/ CallMatchPhone(c)
        \/ CallMatchFIN(c) \/ CallMatchVOEN(c)
        \/ CallReturnNil(c) \/ CallCallResolve(c)
        \/ CallResolveShort(c) \/ CallResolveSort(c)
        \/ CallSweepCommit(c) \/ CallSweepPartial(c) \/ CallSweepContained(c)
        \/ CallSweepReturn(c) \/ CallFinalSort(c)

ConcurrentSpec == ConcurrentInit /\ [][ConcurrentNext]_vars

(***************************************************************************)
(* numtext: convert(n), the Azerbaijani cardinal text of an int64.         *)
(* An int64 is a sign and the digits of its absolute value in base 1000,   *)
(* units first: abs[g] counts 1000^(g-1). A string is the sequence of its  *)
(* words and spaces; a letter outside ASCII is written (U+XXXX).           *)
(***************************************************************************)
wordNegative == "m(U+0259)nfi"

wordHundred == "y(U+00FC)z"

wordZero == "s(U+0131)f(U+0131)r"

\* ones[d + 1] is the word of the digit d
ones ==
    <<"s(U+0131)f(U+0131)r", "bir", "iki", "(U+00FC)(U+00E7)", "d(U+00F6)rd",
      "be(U+015F)", "alt(U+0131)", "yeddi", "s(U+0259)kkiz", "doqquz">>

\* tens[t + 1] is the word of the tens digit t; tens[1] is unused
tens ==
    <<"", "on", "iyirmi", "otuz", "q(U+0131)rx", "(U+0259)lli",
      "altm(U+0131)(U+015F)", "yetmi(U+015F)", "s(U+0259)ks(U+0259)n",
      "doxsan">>

\* the named powers of ten from largest to smallest: value = 1000^power
magnitudes ==
    <<[power |-> 6, word |-> "kvintilyon"],
      [power |-> 5, word |-> "kvadrilyon"],
      [power |-> 4, word |-> "trilyon"],
      [power |-> 3, word |-> "milyard"],
      [power |-> 2, word |-> "milyon"],
      [power |-> 1, word |-> "min"]>>

\* n > maxAbs for the absolute value a: maxAbs is 1000^6
ExceedsMaxAbs(a) == a[7] > 1 \/ (a[7] = 1 /\ \E g \in 1..6 : a[g] > 0)

\* n == 0
IsZero(a) == \A g \in DOMAIN a : a[g] = 0

\* a / 1000^(g-1)
RECURSIVE Quot(_, _)
Quot(a, g) == IF g > Len(a) THEN 0 ELSE a[g] + 1000 * Quot(a, g + 1)

\* a % 1000^(g-1)
Rem(a, g) == [j \in DOMAIN a |-> IF j < g THEN a[j] ELSE 0]

\* -n
Negate(n) == IF IsZero(n.abs) THEN n ELSE [n EXCEPT !.neg = ~n.neg]

\* convertGroup: the text of a number in [0, 999], empty for 0
convertGroup(n) ==
    LET h == n \div 100
        r == n % 100
        t == r \div 10
        o == r % 10
        b1 == IF h = 1 THEN <<wordHundred>>
              ELSE IF h > 1 THEN <<ones[h + 1], " ", wordHundred>>
              ELSE <<>>
        b2 == IF t > 0
              THEN (IF Len(b1) > 0 THEN b1 \o <<" ">> ELSE b1) \o <<tens[t + 1]>>
              ELSE b1
        b3 == IF o > 0
              THEN (IF Len(b2) > 0 THEN b2 \o <<" ">> ELSE b2) \o <<ones[o + 1]>>
              ELSE b2
    IN  IF n = 0 THEN <<>> ELSE b3

\* the part of a magnitude that leaves out bir whatever the magnitude is
convertMagnitude_omitAny(mag, count) ==
    IF count = 1 THEN <<mag.word>>
    ELSE convertGroup(count) \o <<" ">> \o <<mag.word>>

\* the part convert appends for count times the magnitude mag
convertMagnitude(mag, count) ==
    IF mag.power = 1 /\ count = 1 THEN <<mag.word>>
    ELSE convertGroup(count) \o <<" ">> \o <<mag.word>>

\* the loop of convert over magnitudes from index i on, then the rest below
\* one thousand: the parts
RECURSIVE convertParts(_, _, _)
convertParts(i, a, parts) ==
    IF i > Len(magnitudes)
    THEN (IF Quot(a, 1) > 0 THEN Append(parts, convertGroup(Quot(a, 1)))
          ELSE parts)
    ELSE LET mag == magnitudes[i]
             count == Quot(a, mag.power + 1)
         IN  IF count > 0
             THEN convertParts(i + 1, Rem(a, mag.power + 1),
                               Append(parts, convertMagnitude(mag, count)))
             ELSE convertParts(i + 1, a, parts)

\* strings.Join(parts, sep)
RECURSIVE Join(_, _)
Join(parts, sep) ==
    IF Len(parts) = 0 THEN <<>>
    ELSE IF Len(parts) = 1 THEN parts[1]
    ELSE parts[1] \o sep \o Join(Tail(parts), sep)

\* convert(n): empty when abs(n) exceeds maxAbs
convert(n) ==
    IF ExceedsMaxAbs(n.abs) THEN <<>>
    ELSE IF IsZero(n.abs) THEN <<wordZero>>
    ELSE LET joined == Join(convertParts(1, n.abs, <<>>), <<" ">>)
         IN  IF n.neg THEN <<wordNegative>> \o <<" ">> \o joined
             ELSE joined

\* the counts of a magnitude in the numbers of the model
GroupSample == {0, 1, 21, 100, 999}

\* the counts of the trillions and quadrillions
HighSample == {0, 1, 999}

\* the counts of the quintillions: an int64 beyond maxAbs has two or more
TopSample == {0, 1, 2}

\* the numbers of the model
Numbers ==
    {n \in [neg : BOOLEAN,
            abs : {<<g1, g2, g3, g4, g5, g6, g7>> :
                     g1 \in GroupSample, g2 \in GroupSample,
                     g3 \in GroupSample, g4 \in GroupSample,
                     g5 \in HighSample, g6 \in HighSample,
                     g7 \in TopSample}] :
        IsZero(n.abs) => ~n.neg}

ConvertInit ==
    /\ num \in Numbers
    /\ mpc = "arg"
    /\ words = <<>>
    /\ negwords = <<>>
    /\ RecognizeIdle
    /\ TranslitIdle
    /\ ConcurrentIdle

\* convert(n)
RunConvert ==
    /\ mpc = "arg"
    /\ words' = convert(num)
    /\ mpc' = "converted"
    /\ UNCHANGED <<num, negwords, nvars, tvars, cvars>>

\* convert(-n)
RunConvertNegated ==
    /\ mpc = "converted"
    /\ negwords' = convert(Negate(num))
    /\ mpc' = "negated"
    /\ UNCHANGED <<num, words, nvars, tvars, cvars>>

ConvertNext == RunConvert \/ RunConvertNegated

ConvertSpec == ConvertInit /\ [][ConvertNext]_vars

(***************************************************************************)
(* recognize as a function of the text: the lists a call that runs alone   *)
(* can return (more than one where sort.Slice leaves the order of equal    *)
(* elements open).                                                         *)
(***************************************************************************)
\* the candidates in aggregation order
candidates(s) ==
    matchURL(s) \o matchEmail(s) \o matchIBAN(s) \o matchLicensePlate(s)
        \o matchPhone(s) \o matchFIN(s) \o matchVOEN(s)

\* the range loop of resolveOverlaps from index i on
RECURSIVE sweepFrom(_, _, _, _)
sweepFrom(es, i, res, m) ==
    IF i > Len(es) THEN res
    ELSE IF Commits(es[i], m)
         THEN sweepFrom(es, i + 1, Append(res, es[i]), es[i].End)
         ELSE sweepFrom(es, i + 1, res, m)

resolveOverlaps(es) ==
    IF Len(es) <= 1 THEN {es}
    ELSE {sweepFrom(sorted, 1, <<>>, 0) :
            sorted \in SortSlice(es, resolveLessOf(es))}

recognize(s) ==
    IF Len(candidates(s)) = 0 THEN {<<>>}
    ELSE UNION {SortSlice(r, recognizeLessOf(r)) :
                    r \in resolveOverlaps(candidates(s))}

(***************************************************************************)
(* Notions the properties are stated in.                                   *)
(***************************************************************************)
\* the set of the entities of a list
Elems(es) == {es[i] : i \in DOMAIN es}

\* end - start
SpanLen(e) == e.End - e.Start

\* the half-open ranges of a and b intersect
Overlap(a, b) == a.Start < b.End /\ b.Start < a.End

\* the candidates the call discarded
Discarded == Elems(cands) \ Elems(all)

\* a and b tie on every key of the resolver's sort
Tie(a, b) ==
    a.Start = b.Start /\ SpanLen(a) = SpanLen(b) /\ a.Labeled = b.Labeled

(***************************************************************************)
(* C1: the returned list has no two entities whose ranges [start,end)      *)
(* intersect and is sorted by start ascending.                             *)
(***************************************************************************)
C1_NoOverlapSorted ==
    Done => \A i, j \in DOMAIN all :
                i < j => /\ all[i].Start <= all[j].Start
                         /\ ~Overlap(all[i], all[j])

\* a call returned two entities or more out of candidates that overlapped
C1_Witness ==
    /\ Done
    /\ Len(all) >= 2
    /\ \E i, j \in DOMAIN cands : i # j /\ Overlap(cands[i], cands[j])

(***************************************************************************)
(* C2: every entity a matcher produced or recognize returned lies inside   *)
(* the input, is not empty, and its Text is the input between its offsets: *)
(* 0 <= Start < End <= len(input) and input[Start:End] = Text.             *)
(***************************************************************************)
WellFormed(e) ==
    /\ 0 <= e.Start /\ e.Start < e.End /\ e.End <= Len(input)
    /\ Slice(input, e.Start, e.End) = e.Text

C2_OffsetsAndText ==
    \A e \in Elems(all) \cup Elems(entities) \cup Elems(result) : WellFormed(e)

\* a returned URL whose trailing punctuation was trimmed, next to a labeled
\* FIN taken from the capture group
C2_Witness ==
    /\ Done
    /\ \E e \in Elems(all) : e.Type = "URL" /\ At(input, e.End) \in URLTrim
    /\ \E e \in Elems(all) : e.Type = "FIN" /\ e.Labeled

C6_BestAtStart ==
    Done => \A e \in Elems(all) : \A c \in Elems(cands) :
                c.Start = e.Start =>
                    \/ SpanLen(e) > SpanLen(c)
                    \/ SpanLen(e) = SpanLen(c) /\ (c.Labeled => e.Labeled)

\* a labeled VOEN was returned over a Phone of the same span, and an
\* unlabeled candidate over a shorter labeled one of the same start
C6_Witness ==
    /\ Done
    /\ \E e \in Elems(all) : \E c \in Discarded :
            /\ e.Type = "VOEN" /\ e.Labeled /\ c.Type = "Phone"
            /\ c.Start = e.Start /\ c.End = e.End
    /\ \E e \in Elems(all) : \E c \in Discarded :
            ~e.Labeled /\ c.Labeled /\ c.Start = e.Start /\ SpanLen(e) > SpanLen(c)

(***************************************************************************)
(* C7: a returned entity is labeled only if it is a FIN or a VOEN whose    *)
(* span immediately follows its keyword and the separator; every other     *)
(* returned entity is unlabeled.                                           *)
(***************************************************************************)
\* a separator (one byte of [:\s], then at most one \s) ends at offset p and
\* starts at the offset returned
SeparatorsBefore(s, p) ==
    {q \in {p - 1, p - 2} :
        /\ At(s, q) \in {":"} \cup Space
        /\ q = p - 2 => At(s, p - 1) \in Space}

\* the keyword of the type, in any case, ends at offset q
KeywordBefore(s, type, q) ==
    IF type = "FIN"
    THEN /\ At(s, q - 3) \in {"F", "f"} /\ At(s, q - 2) \in {"I", "i"}
         /\ At(s, q - 1) \in {"N", "n"}
    ELSE /\ type = "VOEN"
         /\ At(s, q - 2) \in {"E", "e"} /\ At(s, q - 1) \in {"N", "n"}
         /\ \/ At(s, q - 4) \in {"V", "v"} /\ At(s, q - 3) \in {"O", "o"}
            \/ /\ At(s, q - 5) \in {"V", "v"} /\ At(s, q - 4) = "C3"
               /\ At(s, q - 3) \in {"96", "B6"}

FollowsKeyword(s, e) ==
    \E q \in SeparatorsBefore(s, e.Start) : KeywordBefore(s, e.Type, q)

C7_LabeledOnlyAfterKeyword ==
    Done => \A e \in Elems(all) :
                e.Labeled => e.Type \in {"FIN", "VOEN"} /\ FollowsKeyword(input, e)

\* a labeled entity was returned together with an unlabeled FIN or VOEN
C7_Witness ==
    /\ Done
    /\ \E e \in Elems(all) : e.Labeled
    /\ \E e \in Elems(all) : e.Type \in {"FIN", "VOEN"} /\ ~e.Labeled

(***************************************************************************)
(* C8: on 'FIN: <code>, tel <+994 number>' recognize returns exactly the   *)
(* labeled FIN of the code and then the unlabeled Phone of the number.     *)
(***************************************************************************)
C8_FinThenPhone ==
    (Done /\ input \in FinTelInputs) =>
        all = << [Text |-> Slice(input, 5, 12), Start |-> 5, End |-> 12,
                  Type |-> "FIN", Labeled |-> TRUE],
                 [Text |-> Slice(input, 18, Len(input)), Start |-> 18,
                  End |-> Len(input), Type |-> "Phone", Labeled |-> FALSE] >>

\* the call on the documented example has returned
C8_Witness == Done /\ input = B("FIN: 5ARPXK2, tel +994501234567")

(***************************************************************************)
(* C9: on an input that is exactly one Azerbaijani IBAN recognize returns  *)
(* exactly one entity, the IBAN from 0 to 28.                              *)
(***************************************************************************)
C9_SingleIBAN ==
    (Done /\ input \in IBANInputs) =>
        all = << [Text |-> input, Start |-> 0, End |-> 28,
                  Type |-> "IBAN", Labeled |-> FALSE] >>

\* the call on the documented example has returned
C9_Witness == Done /\ input = B("AZ21NABZ00000000137010001944")

(***************************************************************************)
(* C10: the text of every returned FIN entity is 7 characters, each a      *)
(* digit or an uppercase ASCII letter other than I and O.                  *)
(***************************************************************************)
C10_FINShape ==
    Done => \A e \in Elems(all) :
                e.Type = "FIN" =>
                    /\ Len(e.Text) = 7
                    /\ \A i \in 1..Len(e.Text) : e.Text[i] \in FINClass

(***************************************************************************)
(* C11: the separator between the keyword and the code is optional: when   *)
(* 10 digits follow the keyword VOEN (7 characters of the FIN code follow  *)
(* the keyword FIN) directly, the keyword starting and the code ending at  *)
(* a word boundary, recognize returns the code as a labeled entity.        *)
(***************************************************************************)
\* the keyword of the type, in any case, starts at a word boundary and ends
\* at offset q
KeywordEndsAt(s, type, q) ==
    /\ KeywordBefore(s, type, q)
    /\ \/ type = "FIN" /\ WordBoundary(s, q - 3)
       \/ type = "VOEN" /\ At(s, q - 3) \in {"O", "o"} /\ WordBoundary(s, q - 4)
       \/ type = "VOEN" /\ At(s, q - 4) = "C3" /\ WordBoundary(s, q - 5)

\* the code of the type stands at offset q and ends at a word boundary
CodeAt(s, type, q) ==
    IF type = "FIN"
    THEN AllIn(s, q, 7, FINClass) /\ WordBoundary(s, q + 7)
    ELSE AllIn(s, q, 10, Digit) /\ WordBoundary(s, q + 10)

CodeLen(type) == IF type = "FIN" THEN 7 ELSE 10

C11_SeparatorOptional ==
    Done => \A type \in {"FIN", "VOEN"} : \A q \in Offsets(input) :
                (KeywordEndsAt(input, type, q) /\ CodeAt(input, type, q)) =>
                    \E e \in Elems(all) :
                        /\ e.Type = type /\ e.Labeled
                        /\ e.Start = q /\ e.End = q + CodeLen(type)

(***************************************************************************)
(* C12: no URL entity's text ends with one of . , ; : ! ? ) ] } > : the    *)
(* entity starts where the raw match starts, its End is Start plus the     *)
(* length of its text, and what was cut off the raw match is a run of      *)
(* these characters.                                                       *)
(***************************************************************************)
C12_URLTrimmed ==
    \A e \in Elems(all) \cup Elems(entities) \cup Elems(result) :
        e.Type = "URL" =>
            /\ Len(e.Text) > 0 /\ e.Text[Len(e.Text)] \notin URLTrim
            /\ e.End = e.Start + Len(e.Text)
            /\ reURL(input, e.Start) # NoMatch
            /\ e.End <= reURL(input, e.Start)
            /\ AllIn(input, e.End, reURL(input, e.Start) - e.End, URLTrim)

\* a returned URL off whose raw match two characters or more were stripped
C12_Witness ==
    /\ Done
    /\ \E e \in Elems(all) :
            /\ e.Type = "URL"
            /\ reURL(input, e.Start) >= e.End + 2

(***************************************************************************)
(* C14 on the documented example: phones of '+994501234567 və         *)
(* 0551234567' is the texts of the two numbers, in this order.             *)
(***************************************************************************)
\* the Text fields of the entities of the type, in the order of the list
filterTexts(es, type) ==
    LET sel == SelectSeq(es, LAMBDA e : e.Type = type)
    IN  [i \in 1..Len(sel) |-> sel[i].Text]

phones(es) == filterTexts(es, "Phone")

BareCandidateAt(type, q) ==
    \E c \in Elems(cands) :
        /\ c.Type = type /\ ~c.Labeled
        /\ c.Start = q /\ c.End = q + CodeLen(type)

\* the byte is an ASCII letter, an ASCII digit or the underscore
IsASCIIWord(b) == b \in Letter \/ b \in Digit \/ b = "_"

C17_ASCIIWordBoundary ==
    Done =>
        \A type \in {"FIN", "VOEN"} : \A q \in Offsets(input) :
            AllIn(input, q, CodeLen(type),
                  IF type = "FIN" THEN FINClass ELSE Digit) =>
                (BareCandidateAt(type, q) <=>
                    /\ ~IsASCIIWord(At(input, q - 1))
                    /\ ~IsASCIIWord(At(input, q + CodeLen(type))))

\* a call found a bare VOEN and a bare FIN between non-ASCII letters and
\* none at the codes next to an ASCII letter or an underscore
C17_Witness ==
    /\ Done
    /\ \E q \in Offsets(input) :
            /\ BareCandidateAt("VOEN", q)
            /\ Len(At(input, q - 1)) = 2 /\ Len(At(input, q + 10)) = 2
    /\ \E q \in Offsets(input) :
            /\ BareCandidateAt("FIN", q)
            /\ Len(At(input, q - 1)) = 2 /\ Len(At(input, q + 7)) = 2
    /\ \E q \in Offsets(input) :
            /\ AllIn(input, q, 10, Digit) /\ At(input, q - 1) \in Letter
            /\ ~BareCandidateAt("VOEN", q)
    /\ \E q \in Offsets(input) :
            /\ AllIn(input, q, 7, FINClass) /\ At(input, q + 7) = "_"
            /\ ~BareCandidateAt("FIN", q)

NoCandidates(s) ==
    \A p \in Offsets(s) :
        /\ reURL(s, p) = NoMatch /\ reEmail(s, p) = NoMatch
        /\ reIBAN(s, p) = NoMatch /\ reLicensePlate(s, p) = NoMatch
        /\ rePhoneIntl(s, p) = NoMatch /\ rePhoneLocal(s, p) = NoMatch
        /\ reFINLabeled(s, p) = NoMatch /\ reFINBare(s, p) = NoMatch
        /\ reVOENLabeled(s, p) = NoMatch /\ reVOENBare(s, p) = NoMatch

C13_NilWithoutCandidates ==
    (Done /\ NoCandidates(input)) => (isNil /\ all = <<>>)

\* a call on a text that is not empty and holds no candidate has returned
C13_Witness ==
    /\ Done
    /\ Len(input) > 0
    /\ NoCandidates(input)
    /\ isNil

(***************************************************************************)
(* C16: for every input, byte sequences that are not valid UTF-8           *)
(* included, each call of recognize terminates and returns, and no call    *)
(* panics on a slice expression or an index out of range.  Termination is  *)
(* stated with a variant: StepsLeft is a natural number that every step    *)
(* decreases, and a step is possible as long as it is not 0.               *)
(***************************************************************************)
\* each of the ten patterns yields non-empty matches that do not overlap
MaxCandidates(s) == 10 * Len(s)

\* the positions of a call, from the last to the first
Positions ==
    << "done", "finalSort", "sweep", "resolve", "check", "matchVOEN",
       "matchFIN", "matchPhone", "matchLicensePlate", "matchIBAN",
       "matchEmail", "matchURL" >>

PosRank(p) == CHOOSE i \in DOMAIN Positions : Positions[i] = p

\* a bound on the steps the two calls have left
StepsLeft ==
    LET width == MaxCandidates(input) + 2
    IN  (2 - run) * (Len(Positions) + 1) * width
        + (PosRank(pc) - 1) * width
        + (IF pc = "sweep" THEN Len(entities) + 1 - k ELSE 0)

\* the guard of some step of the call holds
CanStep ==
    \/ pc \in {"matchURL", "matchEmail", "matchIBAN", "matchLicensePlate",
               "matchPhone", "matchFIN", "matchVOEN"}
    \/ pc = "check" /\ (Len(all) = 0 \/ Len(all) # 0)
    \/ pc = "resolve" /\ (Len(entities) <= 1 \/ Len(entities) > 1)
    \/ pc = "sweep" /\ k \in 1..(Len(entities) + 1)
    \/ pc = "finalSort"
    \/ pc = "done" /\ run = 1

C16_TerminatesWithoutPanic ==
    /\ [][StepsLeft' < StepsLeft]_vars
    /\ [](/\ pc # "panic"
          /\ Len(entities) <= MaxCandidates(input)
          /\ StepsLeft >= 0
          /\ StepsLeft > 0 => CanStep)

\* both calls have returned entities on a text in which the lead byte C3 is
\* not followed by a continuation byte
C16_Witness ==
    /\ Done
    /\ run = 2
    /\ StepsLeft = 0
    /\ Len(all) > 0
    /\ \E p \in Offsets(input) :
            At(input, p) = "C3" /\ At(input, p + 1) \notin {"96", "B6", "BC"}

(***************************************************************************)
(* C18: the transliteration round-trips on Latin input: for every Latin    *)
(* text s of standard Azerbaijani letters, a q before a front vowel in a   *)
(* text without g included, CyrillicToLatin(LatinToCyrillic(s)) = s.       *)
(***************************************************************************)
C18_RoundTrip == tpc = "back" => back = latin

(***************************************************************************)
(* C15: concurrent calls of recognize do not disturb one another: in       *)
(* every interleaving of their steps, each call returns a list that the    *)
(* call returns when it runs alone on its text.                            *)
(***************************************************************************)
C15_ConcurrentCallsIndependent ==
    \A c \in Calls :
        cpc[c] = "done" => frame[Slot(c)].all \in recognize(cinput[c])

\* every call has returned, among them a call that discarded a partial
\* overlap and a call on another text that returned an entity
C15_Witness ==
    /\ \A c \in Calls : cpc[c] = "done"
    /\ \E c, d \in Calls :
            /\ cinput[c] = B("a@b.http://x.az")
            /\ cinput[d] = B("0551234567")
            /\ Len(frame[Slot(c)].all) = 1
            /\ Len(frame[Slot(d)].all) = 1

\* the calls of the two specifications agree: a call that ran step by step
\* returned a list of recognize(input)
StepwiseAgrees == Done => all \in recognize(input)

(***************************************************************************)
(* C21: the final sort of recognize is a no-op: the list resolveOverlaps   *)
(* returns is in strictly increasing order of Start, and the sort leaves   *)
(* it as it is.                                                            *)
(***************************************************************************)
C21_FinalSortNoOp ==
    /\ [](pc = "finalSort" =>
            \A i, j \in DOMAIN all : i < j => all[i].Start < all[j].Start)
    /\ [][pc = "finalSort" => all' = all]_vars

\* the final sort has run on two entities or more that came out of
\* candidates which were not in order of Start
C21_Witness ==
    /\ Done
    /\ Len(all) >= 2
    /\ \E i, j \in DOMAIN cands : i < j /\ cands[i].Start > cands[j].Start

(***************************************************************************)
(* C22: the text of every returned URL entity is http:// or https://       *)
(* followed by one further character at least, which is no whitespace;     *)
(* it is never the scheme alone.                                           *)
(***************************************************************************)
\* the length of the scheme the text starts with, 0 when it starts with none
SchemeLen(text) ==
    IF SubSeq(text, 1, 7) = B("http://") THEN 7
    ELSE IF SubSeq(text, 1, 8) = B("https://") THEN 8
    ELSE 0

C22_URLNotBareScheme ==
    Done => \A e \in Elems(all) :
                e.Type = "URL" =>
                    /\ SchemeLen(e.Text) > 0
                    /\ Len(e.Text) > SchemeLen(e.Text)
                    /\ e.Text[SchemeLen(e.Text) + 1] \notin Space

(***************************************************************************)
(* C23: a labeled FIN or VOEN entity covers the code only: it is 7 (10)    *)
(* bytes of the code class, it starts right after keyword and separator,   *)
(* and a bare candidate of its type that overlaps it has the same span     *)
(* (there is one whenever the code is in the class of the bare pattern).   *)
(***************************************************************************)
\* the class of the code of a labeled match of the type
LabeledClass(type) == IF type = "FIN" THEN FINClassFold ELSE Digit

\* the class of the code of a bare match of the type
BareClass(type) == IF type = "FIN" THEN FINClass ELSE Digit

C23_LabeledSpanIsCode ==
    \A e \in Elems(all) \cup Elems(cands) :
        e.Labeled =>
            /\ e.End = e.Start + CodeLen(e.Type)
            /\ Len(e.Text) = CodeLen(e.Type)
            /\ \A i \in DOMAIN e.Text : e.Text[i] \in LabeledClass(e.Type)
            /\ FollowsKeyword(input, e)
            /\ \A c \in Elems(cands) :
                    (c.Type = e.Type /\ ~c.Labeled /\ Overlap(c, e)) =>
                        (c.Start = e.Start /\ c.End = e.End)
            /\ (cands # <<>> /\ \A i \in DOMAIN e.Text : e.Text[i] \in BareClass(e.Type))
                    => BareCandidateAt(e.Type, e.Start)

\* a call returned a labeled VOEN whose bare candidate was discarded, out
\* of candidates that hold a labeled FIN too
C23_Witness ==
    /\ Done
    /\ \E e \in Elems(all) :
            /\ e.Type = "VOEN" /\ e.Labeled
            /\ \E c \in Discarded :
                    c.Type = "VOEN" /\ ~c.Labeled /\ c.Start = e.Start
    /\ \E e \in Elems(cands) : e.Type = "FIN" /\ e.Labeled

(***************************************************************************)
(* C26: the result is maximal: every candidate that is not returned        *)
(* overlaps a returned entity whose Start is at or before its own; no      *)
(* candidate disjoint from every returned entity is dropped.               *)
(***************************************************************************)
C26_Maximal ==
    Done => \A c \in Discarded :
                \E e \in Elems(all) : e.Start <= c.Start /\ Overlap(c, e)

\* a call discarded a candidate and returned an entity that starts at the
\* offset at which the entity before it ends
C26_Witness ==
    /\ Done
    /\ Discarded # {}
    /\ \E i \in DOMAIN all : i > 1 /\ all[i].Start = all[i - 1].End

(***************************************************************************)
(* C27: the resolver only selects: every entity of its output is one of    *)
(* the candidates, equal in all five fields, no candidate is in the        *)
(* output twice, and the output is no longer than the input.               *)
(***************************************************************************)
\* the number of indexes of the list at which e stands
Count(es, e) == Cardinality({i \in DOMAIN es : es[i] = e})

C27_OnlySelects ==
    pc \in {"finalSort", "done"} =>
        /\ \A e \in Elems(all) : Count(all, e) <= Count(cands, e)
        /\ Len(all) <= Len(cands)

\* the resolver has returned two entities or more and fewer than it was
\* given, one of them after the discard of a partial overlap
C27_Witness ==
    /\ pc = "finalSort"
    /\ Len(all) >= 2
    /\ Len(all) < Len(cands)
    /\ \E c \in Discarded : \E e \in Elems(all) :
            e.Start < c.Start /\ c.Start < e.End /\ e.End < c.End

(***************************************************************************)
(* C28: when a matcher produces a candidate, recognize returns a list      *)
(* that is not empty, and its first entity is a candidate of the least     *)
(* Start, a longest one among the candidates at that Start, and a labeled  *)
(* one if a labeled candidate of that Start and length exists.             *)
(***************************************************************************)
C28_FirstEntity ==
    (Done /\ ~NoCandidates(input)) =>
        /\ Len(all) > 0
        /\ all[1] \in Elems(candidates(input))
        /\ \A c \in Elems(candidates(input)) :
                /\ all[1].Start <= c.Start
                /\ c.Start = all[1].Start =>
                        /\ SpanLen(all[1]) >= SpanLen(c)
                        /\ (SpanLen(all[1]) = SpanLen(c) /\ c.Labeled)
                                => all[1].Labeled

\* a call returned two entities or more; the first of them is labeled, was
\* chosen over an unlabeled candidate of its span, and is not the candidate
\* aggregated first
C28_Witness ==
    /\ Done
    /\ Len(all) >= 2
    /\ all[1] # cands[1]
    /\ \E c \in Discarded :
            /\ c.Start = all[1].Start /\ SpanLen(c) = SpanLen(all[1])
            /\ ~c.Labeled /\ all[1].Labeled

\* C30: resolveOverlaps is idempotent: applied to the list it returned it
\* returns that list unchanged, entity for entity and in the same order; this
\* holds for the list the sweep built step by step and for every list the
\* resolver can return for the candidates of the call.
C30_Idempotent ==
    /\ pc = "finalSort" => resolveOverlaps(all) = {all}
    /\ pc = "resolve" =>
            \A o \in resolveOverlaps(entities) : resolveOverlaps(o) = {o}

\* the resolver returned three entities or more and had discarded a candidate,
\* so that the second application goes through the sort and the sweep
C30_Witness ==
    /\ pc = "finalSort"
    /\ Len(all) >= 3
    /\ \E c \in Discarded : \E e \in Elems(all) : Overlap(c, e)

\* longest candidate list whose orders are enumerated
MaxPermLen == 5

\* no two candidates of es agree on all of start, length and labeled
TieFree(es) == \A i, j \in DOMAIN es : i # j => ~Tie(es[i], es[j])

\* every order of the candidates es
Orders(es) ==
    SortSlice(es, [i \in 1..Len(es) |-> [j \in 1..Len(es) |-> FALSE]])

\* C29: the output of the resolver does not depend on the order of the
\* candidates: when no two candidates agree on all of start, length and
\* labeled, the resolver given the candidates in any order returns exactly
\* the list it returned for the order they were aggregated in.
C29_OrderIndependent ==
    (pc = "finalSort" /\ TieFree(cands) /\ Len(cands) <= MaxPermLen) =>
        \A p \in Orders(cands) : resolveOverlaps(p) = {all}

\* a call with three tie-free candidates or more, aggregated out of the
\* resolver's order, of which the resolver discarded one
C29_Witness ==
    /\ pc = "finalSort"
    /\ TieFree(cands) /\ Len(cands) >= 3 /\ Len(cands) <= MaxPermLen
    /\ \E i, j \in DOMAIN cands : i < j /\ resolveLess(cands[j], cands[i])
    /\ Discarded # {}

\* the Latin rune the comment of resolveG gives for Ge followed by rest: G
\* when the text has no Gje and the first letter of rest is one of the five
\* front vowels, Q otherwise, in the case of Ge
GeLatin(upper, rest, hasGje) ==
    LET front ==
            /\ ~hasGje
            /\ \E i \in DOMAIN rest :
                    /\ rest[i] \in {"U+04D9", "U+0435", "U+0438", "U+04E9",
                                    "U+04AF"}
                    /\ \A j \in 1..(i - 1) : ~IsLetter(rest[j])
    IN  IF front THEN (IF upper THEN "G" ELSE "g")
        ELSE (IF upper THEN "Q" ELSE "q")

\* C24: resolveG returns Q/q whenever the text contains a Gje; otherwise it
\* skips the non-letters of the rest of the text and returns G/g exactly when
\* the first letter it finds is a front vowel, and Q/q when that letter is a
\* back vowel or a consonant or when no letter follows; the result is upper
\* case exactly when the Ge is. Stated for resolveG on every suffix of the
\* Cyrillic text and for every Ge that CyrillicToLatin converted.
C24_ResolveG ==
    /\ tpc \in {"cyrillic", "back"} =>
            \A i \in 0..Len(cyr) : \A upper, hasGje \in BOOLEAN :
                resolveG(upper, SubSeq(cyr, i + 1, Len(cyr)), hasGje)
                    = GeLatin(upper, SubSeq(cyr, i + 1, Len(cyr)), hasGje)
    /\ tpc = "back" =>
            /\ Len(back) = Len(cyr)
            /\ \A i \in DOMAIN cyr :
                    cyr[i] \in {GeUpper, GeLower} =>
                        back[i] = GeLatin(cyr[i] = GeUpper,
                                          SubSeq(cyr, i + 1, Len(cyr)),
                                          containsGje(cyr))

\* a lower-case Ge, a full stop and a front vowel were converted: the Ge
\* became g across the non-letter
C24_Witness ==
    /\ tpc = "back"
    /\ cyr = <<GeLower, ".", "U+04E9">>
    /\ back = <<"g", ".", "U+00F6">>

\* the words of the digits, of the tens and of one hundred
NumberWords ==
    {ones[d] : d \in DOMAIN ones} \cup {tens[t] : t \in 2..Len(tens)}
        \cup {wordHundred}

\* w stands at position p of the text ws and the count before it is the
\* text before: nothing, or bir alone
CountBefore(ws, p, before) ==
    LET q == p - 2 * Len(before)
    IN  /\ q >= 1
        /\ \A i \in 1..Len(before) :
                ws[q + 2 * (i - 1)] = before[i] /\ ws[q + 2 * i - 1] = " "
        /\ q >= 3 => ws[q - 2] \notin NumberWords

\* C25: convert leaves out bir before min only. For every n within range, a
\* count of exactly one thousand is the word min alone and a count of exactly
\* one of a larger magnitude is bir followed by the word of the magnitude
\* (1 000 000 is bir milyon, 1 001 000 is bir milyon min); for n > 0,
\* convert(-n) is the word for minus, a space and convert(n).
C25_BirOnlyBeforeMin ==
    /\ (mpc # "arg" /\ ~ExceedsMaxAbs(num.abs)) =>
            \A i \in DOMAIN magnitudes :
                num.abs[magnitudes[i].power + 1] = 1 =>
                    \E p \in DOMAIN words :
                        /\ words[p] = magnitudes[i].word
                        /\ CountBefore(words, p,
                                IF magnitudes[i].word = "min" THEN <<>>
                                ELSE <<"bir">>)
    /\ (mpc # "arg" /\ num = [neg |-> FALSE, abs |-> <<0, 0, 1, 0, 0, 0, 0>>])
            => words = <<"bir", " ", "milyon">>
    /\ (mpc # "arg" /\ num = [neg |-> FALSE, abs |-> <<0, 1, 1, 0, 0, 0, 0>>])
            => words = <<"bir", " ", "milyon", " ", "min">>
    /\ (mpc # "arg" /\ num = [neg |-> FALSE, abs |-> <<0, 1, 0, 0, 0, 0, 0>>])
            => words = <<"min">>
    /\ (mpc = "negated" /\ ~num.neg /\ ~IsZero(num.abs)
            /\ ~ExceedsMaxAbs(num.abs)) =>
            negwords = <<wordNegative, " ">> \o words

\* 1 001 001 021 was converted and then negated: one of the milliards, one
\* of the millions, one of the thousands
C25_Witness ==
    /\ mpc = "negated"
    /\ num = [neg |-> FALSE, abs |-> <<21, 1, 1, 1, 0, 0, 0>>]
    /\ words = <<"bir", " ", "milyard", " ", "bir", " ", "milyon", " ",
                 "min", " ", "iyirmi", " ", "bir">>
    /\ negwords = <<wordNegative, " ">> \o words

====
